---------------------------- MODULE Spec2Model ----------------------------
(***************************************************************************)
(* Throttle-mapper firmware: the serial command protocol and the ramp/wait *)
(* state machine of src/src/HAL.h (the main program, lines 32-560).        *)
(*                                                                         *)
(* One TLA+ step of the action Loop is one pass of Application_loop, so    *)
(* every state of a behaviour is a poll-cycle boundary.  Strings are       *)
(* sequences of one-character strings.  The serial peer is modelled by     *)
(* HostPick / HostByte, which put the bytes of a line on the wire one at a *)
(* time.                                                                   *)
(*                                                                         *)
(* Timer.h and the header that sets CMD_CHAR_LEN, S_TIMEOUT,               *)
(* ADC_SETTLE_TIME and S_DATA_TIMESTEP are not among the source files; the *)
(* timer follows the specification's section 4.1 and the four constants    *)
(* take small values.  X9C10X is the external potentiometer driver.        *)
(***************************************************************************)
EXTENDS Integers, Sequences, FiniteSets, TLC

(***************************************************************************)
(* Characters and Arduino String helpers                                   *)
(***************************************************************************)
ASCII_LF == "\n"
ASCII_CR == "\r"
ASCII_SPACE == " "
NUL == "\\0"
ASCII_TAB == "\t"
ASCII_FF == "\f"
\* The vertical tab, byte 11, which has no escape of its own.
ASCII_VT == "\\v"

\* The characters of the bytes 1 .. 15, by value.
LowBytes == <<"\\x01", "\\x02", "\\x03", "\\x04", "\\x05", "\\x06", "\\x07",
              "\\x08", ASCII_TAB, ASCII_LF, ASCII_VT, ASCII_FF, ASCII_CR,
              "\\x0e", "\\x0f">>

Digits == <<"0", "1", "2", "3", "4", "5", "6", "7", "8", "9">>

UpperAlpha == <<"A", "B", "C", "D", "E", "F", "G", "H", "I", "J", "K", "L", "M",
                "N", "O", "P", "Q", "R", "S", "T", "U", "V", "W", "X", "Y", "Z">>

LowerAlpha == <<"a", "b", "c", "d", "e", "f", "g", "h", "i", "j", "k", "l", "m",
                "n", "o", "p", "q", "r", "s", "t", "u", "v", "w", "x", "y", "z">>

\* The string the tokenizer returns when no word is left.
NULL_WORD == <<"N", "U", "L", "L">>

isdigit(c) == \E i \in 1..10 : Digits[i] = c

DigitVal(c) == (CHOOSE i \in 1..10 : Digits[i] = c) - 1

tolower(c) ==
    IF \E i \in 1..26 : UpperAlpha[i] = c
    THEN LowerAlpha[CHOOSE i \in 1..26 : UpperAlpha[i] = c]
    ELSE c

\* String::toLowerCase
toLowerCase(str) == [i \in 1..Len(str) |-> tolower(str[i])]

\* String::charAt: index from 0, NUL when out of range.
charAt(str, i) == IF i < Len(str) THEN str[i + 1] ELSE NUL

\* String::substring(from, to): characters from..to-1, indices from 0.
substring(str, from, to) == SubSeq(str, from + 1, to)

\* String(const char *): the characters up to the first NUL.
RECURSIVE CString(_)
CString(buf) ==
    IF buf = <<>> \/ Head(buf) = NUL THEN <<>>
    ELSE <<Head(buf)>> \o CString(Tail(buf))

(***************************************************************************)
(* Integer widths.  The program is built for the AVR target (int of 16     *)
(* bits, long of 32) and for a 64-bit host (int of 32 bits, long of 64).   *)
(* A long is held as the four 16-bit limbs of its 64-bit two's complement  *)
(* pattern, the lowest first: the long n is <<n mod 2^16, (n div 2^16) mod *)
(* 2^16, ...>>, and a 32-bit long is held sign-extended.                   *)
(***************************************************************************)
Builds == {"avr", "lp64"}

B16 == 65536

Zero64 == <<0, 0, 0, 0>>
LONG_MAX == <<B16 - 1, B16 - 1, B16 - 1, B16 \div 2 - 1>>
LONG_MIN == <<0, 0, 0, B16 \div 2>>

\* 10 * n + d on the limbs of n; over tells that the result has left 64 bits.
MulAdd10(n, d) ==
    LET t1 == 10 * n[1] + d
        t2 == 10 * n[2] + t1 \div B16
        t3 == 10 * n[3] + t2 \div B16
        t4 == 10 * n[4] + t3 \div B16
    IN [v |-> <<t1 % B16, t2 % B16, t3 % B16, t4 % B16>>,
        over |-> t4 \div B16 > 0]

\* n + k modulo 2^64, for 0 <= k < 2^16.
AddSmall(n, k) ==
    LET t1 == n[1] + k
        t2 == n[2] + t1 \div B16
        t3 == n[3] + t2 \div B16
        t4 == n[4] + t3 \div B16
    IN <<t1 % B16, t2 % B16, t3 % B16, t4 % B16>>

\* -n modulo 2^64.
Negate(n) ==
    AddSmall(<<B16 - 1 - n[1], B16 - 1 - n[2], B16 - 1 - n[3], B16 - 1 - n[4]>>, 1)

\* The low 32 bits of n as a long of 32 bits.
SignExtend32(n) ==
    IF n[2] >= B16 \div 2 THEN <<n[1], n[2], B16 - 1, B16 - 1>>
    ELSE <<n[1], n[2], 0, 0>>

\* The conversion of a long to int: the low bits, as a signed number.
Signed16(l) == IF l >= B16 \div 2 THEN l - B16 ELSE l

NarrowInt(n, build) ==
    IF build = "avr" THEN Signed16(n[1]) ELSE Signed16(n[2]) * B16 + n[1]

\* isspace of <ctype.h> in the C locale: space and the bytes 9 .. 13.
isspace(c) ==
    c \in {ASCII_SPACE, ASCII_TAB, ASCII_LF, ASCII_VT, ASCII_FF, ASCII_CR}

\* The digits at the head of str, read as a magnitude.
RECURSIVE AtolDigits(_, _, _)
AtolDigits(str, acc, over) ==
    IF str = <<>> \/ ~isdigit(Head(str)) THEN [v |-> acc, over |-> over]
    ELSE LET m == MulAdd10(acc, DigitVal(Head(str)))
         IN AtolDigits(Tail(str), m.v, over \/ m.over)

\* atol of a long of 64 bits (strtol): a value out of range becomes LONG_MAX
\* or LONG_MIN.
Long64(m, neg) ==
    IF ~neg
    THEN IF m.over \/ m.v[4] >= B16 \div 2 THEN LONG_MAX ELSE m.v
    ELSE IF m.over \/ m.v[4] > B16 \div 2
            \/ (m.v[4] = B16 \div 2 /\ <<m.v[1], m.v[2], m.v[3]>> # <<0, 0, 0>>)
         THEN LONG_MIN
         ELSE Negate(m.v)

\* atol of a long of 32 bits (avr-libc): the value wraps.
Long32(m, neg) == SignExtend32(IF neg THEN Negate(m.v) ELSE m.v)

\* String::toInt is atol: optional blanks, an optional sign, then digits up
\* to the first character that is no digit; 0 when there is no digit.
RECURSIVE toInt(_, _)
toInt(str, build) ==
    IF str # <<>> /\ isspace(Head(str)) THEN toInt(Tail(str), build)
    ELSE LET neg == str # <<>> /\ Head(str) = "-"
             signed == str # <<>> /\ Head(str) \in {"-", "+"}
             m == AtolDigits(IF signed THEN Tail(str) ELSE str, Zero64, FALSE)
         IN IF build = "avr" THEN Long32(m, neg) ELSE Long64(m, neg)

\* A string is numeric when it holds only digits and '-' (the empty string
\* included).
isNumeric(str) == \A i \in 1..Len(str) : isdigit(str[i]) \/ str[i] = "-"

\* abs() of <stdlib.h>
abs(x) == IF x < 0 THEN 0 - x ELSE x

(***************************************************************************)
(* Tokenizer.  cur is the function's static cursor; the result is the word *)
(* returned and the cursor left behind.                                    *)
(***************************************************************************)
IsSep(c) == c = ASCII_LF \/ c = ASCII_SPACE

\* The scan of nextWord's for loop from index i in parser state st, with
\* the cursor at c.
RECURSIVE WordScan(_, _, _, _)
WordScan(input, i, st, c) ==
    IF i >= Len(input) THEN [word |-> NULL_WORD, cur |-> c]
    ELSE IF st = "Spaces"
         THEN IF IsSep(charAt(input, i))
              THEN WordScan(input, i + 1, "Spaces", c)
              ELSE WordScan(input, i + 1, "Reading", i)
         ELSE IF IsSep(charAt(input, i))
              THEN [word |-> substring(input, c, i), cur |-> i + 1]
              ELSE WordScan(input, i + 1, "Reading", c)

nextWord(input, reset, cur0) ==
    LET c == IF reset THEN 0 ELSE cur0
    IN IF c >= Len(input) THEN [word |-> NULL_WORD, cur |-> c]
       ELSE WordScan(input, c, "Spaces", c)


(***************************************************************************)
(* Program constants.  The header that defines them is not among the       *)
(* source files; the model gives them small values.                        *)
(***************************************************************************)
\* Capacity of checkSerialRX's line buffer.
CMD_CHAR_LEN == 10
\* Inactivity timeout of the line assembler.
S_TIMEOUT == 2
\* Settling interval after a change of position.
ADC_SETTLE_TIME == 2
\* Cadence of the data reports.
S_DATA_TIMESTEP == 3

\* Output markers: end of command, command received, high priority, data.
S_E_CHAR == "e"
S_R_CHAR == "r"
S_HP_CHAR == "h"
S_D_CHAR == "d"

\* The largest position the driver holds.
POT_MAX_POS == 99

(***************************************************************************)
(* Bounds of the model                                                     *)
(***************************************************************************)
\* The most time, in timer units, that passes between two poll cycles.
MaxTick == 2
\* The most bytes waiting in the UART receive buffer.
MaxRx == 1
\* The most end-of-command markers counted for one command.
MaxCount == 3
\* The longest line given to the tokenizer on its own.
MaxLen == 4

(***************************************************************************)
(* Interval timer (specification, section 4.1).  left is the time to the   *)
(* deadline, deadline - now; Forever is a duration beyond any horizon      *)
(* (2^64 - n divided by at most 99 steps).                                 *)
(***************************************************************************)
Forever == 0 - 1

SWTimer_construct(duration) ==
    [duration |-> duration, left |-> 0, running |-> FALSE]

SWTimer_start(t) == [t EXCEPT !.left = t.duration, !.running = TRUE]

SWTimer_expired(t) == ~t.running \/ t.duration = 0 \/ t.left = 0

\* The passing of d units of time, as a running timer sees it.
Elapse(t, d) ==
    IF ~t.running \/ t.left = Forever THEN t
    ELSE [t EXCEPT !.left = IF t.left > d THEN t.left - d ELSE 0]

(***************************************************************************)
(* 64-bit unsigned values: the limbs of a long, read without a sign.       *)
(***************************************************************************)
\* (uint64_t) v > 0
U64Positive(v) == v # Zero64

\* (uint64_t) v / n for 0 < n <= 99
U64Div(v, n) ==
    LET a4 == v[4]
        a3 == (a4 % n) * B16 + v[3]
        a2 == (a3 % n) * B16 + v[2]
        a1 == (a2 % n) * B16 + v[1]
    IN <<a1 \div n, a2 \div n, a3 \div n, a4 \div n>>

\* The duration of a timer constructed with the 64-bit value q: the value,
\* or Forever when it lies beyond 2^31.
Duration(q) ==
    IF q[4] = 0 /\ q[3] = 0 /\ q[2] < B16 \div 2 THEN q[2] * B16 + q[1]
    ELSE Forever

(***************************************************************************)
(* Potentiometer driver X9C10X: setPosition takes a uint8_t and clamps it  *)
(* to 99.                                                                  *)
(***************************************************************************)
X9C10X_setPosition(pos) ==
    LET p8 == pos % 256
    IN IF p8 > POT_MAX_POS THEN POT_MAX_POS ELSE p8

(***************************************************************************)
(* Application state                                                       *)
(***************************************************************************)
Application_construct ==
    [ wait_cmd_timer       |-> SWTimer_construct(0),
      linear_cmd_timer     |-> SWTimer_construct(0),
      adc_settling_timer   |-> SWTimer_construct(ADC_SETTLE_TIME),
      data_step_timer      |-> SWTimer_construct(S_DATA_TIMESTEP),
      serial_timeout_timer |-> SWTimer_construct(S_TIMEOUT),
      pot_pos              |-> 0,
      target_pos           |-> 0,
      ramping_time         |-> Zero64,
      steps                |-> 0,
      new_value_flag       |-> TRUE,
      cmd_finished_flag    |-> FALSE,
      cmd_high_priority    |-> FALSE,
      command              |-> <<>>,
      appState             |-> "Idle" ]

\* What the program writes to the serial line: a marker character, a text
\* and a data report, each with Serial.println, and the echo of a line, with
\* Serial.print.  raw holds the characters of an echo.
OutChar(c) == [k |-> "char", v |-> c, pos |-> 0, raw |-> <<>>]
OutText(t) == [k |-> "text", v |-> t, pos |-> 0, raw |-> <<>>]
OutData(p) == [k |-> "data", v |-> S_D_CHAR, pos |-> p, raw |-> <<>>]
OutEcho(str) == [k |-> "echo", v |-> "", pos |-> 0, raw |-> str]

\* The bytes of an output on the serial line.  Serial.println ends what it
\* prints with CR LF, Serial.print adds nothing.  The characters of a text
\* are held as one element, and so are the fields of a data report behind
\* its marker.
Bytes(e) ==
    CASE e.k = "echo" -> e.raw
      [] e.k = "data" -> <<e.v, "fields", ASCII_CR, ASCII_LF>>
      [] OTHER -> <<e.v, ASCII_CR, ASCII_LF>>

RECURSIVE Wire(_)
Wire(o) == IF o = <<>> THEN <<>> ELSE Bytes(Head(o)) \o Wire(Tail(o))

serialPrintChar(s, c) == [s EXCEPT !.out = Append(@, OutChar(c))]

serialPrintData(s) == [s EXCEPT !.out = Append(@, OutData(s.app.pot_pos))]

(***************************************************************************)
(* The operations below take and return a record s of everything one poll  *)
(* cycle reads and writes:                                                 *)
(*   app, pot, cur, ser_i, input, rx   the program's state (see VARIABLES) *)
(*   out       what the cycle has written to the serial line so far        *)
(*   valid     checkSerialRX's result in this cycle                        *)
(*   executed  the lines handed to executeCommand in this cycle            *)
(*   halted    the program has stopped (a trapped division by zero)        *)
(*   divzero   the cycle has divided by zero                               *)
(*   build     the widths of int and long the cycle computes with          *)
(*   ECHO_EN   the build echoes the lines it completes                     *)
(*   wide      the cycle has read a number that another build reads as     *)
(*             another                                                     *)
(*   pre, post what the cycle's last executeCommand found and left         *)
(*   dt        the time that has passed since the cycle before             *)
(*   drv       the positions the cycle has passed to the driver            *)
(***************************************************************************)

\* The outcomes of the unsigned division ramping_time / 0, which the
\* language leaves undefined: the program traps, or goes on with some
\* quotient.
UBOutcomes == {"trap", "zero", "ones"}

UBQuotient(ub) ==
    IF ub = "zero" THEN Zero64 ELSE <<B16 - 1, B16 - 1, B16 - 1, B16 - 1>>

\* pot.setPosition(pos): the driver takes the position, and the cycle's
\* record the position as it was passed.
setPosition(s, pos) ==
    [s EXCEPT !.pot = X9C10X_setPosition(pos), !.drv = Append(@, pos)]

\* Mutant: the application is reconstructed, the potentiometer left alone.
resetApplication_KeepPot(s) == [s EXCEPT !.app = Application_construct]

resetApplication(s) ==
    [setPosition(s, 0) EXCEPT !.app = Application_construct]

\* The range test of a target and of a stepped position.
InBounds(p) == p >= 0 /\ p < 100

\* The number in str depends on the widths of int and long.
BuildMatters(str) ==
    \E a, b \in Builds :
        \E m \in {toInt(str, a)}, n \in {toInt(str, b)} :
            m # n \/ NarrowInt(m, a) # NarrowInt(n, b)

\* The cycle record s after a conversion of str: wide tells that another
\* build reads another number.
Converted(s, str) == [s EXCEPT !.wide = @ \/ BuildMatters(str)]

\* The target of a t command, and the duration of a w command: arg1 as an int.
IntArg(s, arg1) == NarrowInt(toInt(arg1, s.build), s.build)

\* The position an s command steps to: pot_pos + arg1 as an int.
SteppedArg(s, arg1) ==
    NarrowInt(AddSmall(toInt(arg1, s.build), s.app.pot_pos), s.build)

\* A ramp to target in time, a positive uint64_t.
Ramp(s, target, time, steps, ub) ==
    [s EXCEPT !.halted = (steps = 0 /\ ub = "trap"),
              !.divzero = (steps = 0),
              !.app = [@ EXCEPT
                  !.target_pos = target,
                  !.ramping_time = time,
                  !.steps = steps,
                  !.linear_cmd_timer =
                      IF steps = 0 /\ ub = "trap" THEN @
                      ELSE SWTimer_start(SWTimer_construct(Duration(
                               IF steps = 0 THEN UBQuotient(ub)
                               ELSE U64Div(time, steps))))]]

\* case 't' with a numeric target and a numeric second argument.
TimedT(s, target, time, ub) ==
    IF ~U64Positive(time)
    THEN [s EXCEPT !.text = "  Time out of bounds"]
    ELSE Ramp(s, target, time, abs(target - s.app.pot_pos), ub)

\* case 't' with a numeric target.
TargetT(s, target, arg2, ub) ==
    IF ~InBounds(target)
    THEN [s EXCEPT !.text = "  Throttle out of bounds"]
    ELSE IF isNumeric(arg2)
         THEN TimedT(Converted(s, arg2), target, toInt(arg2, s.build), ub)
         ELSE IF arg2 = NULL_WORD
              THEN setPosition(s, target)
              ELSE s

\* Mutant: the argument is taken as the new position, not as a step.
SteppedS_Absolute(s, new_pos) ==
    IF InBounds(abs(new_pos))
    THEN setPosition(s, abs(new_pos))
    ELSE [s EXCEPT !.text = "  Throttle out of bounds"]

\* case 's' with a numeric argument.
SteppedS(s, new_pos) ==
    IF InBounds(new_pos)
    THEN setPosition(s, new_pos)
    ELSE [s EXCEPT !.text = "  Throttle out of bounds"]

\* case 'w' with a numeric argument.
TimedW(s, time) ==
    IF time > 0
    THEN [s EXCEPT !.app.wait_cmd_timer = SWTimer_start(SWTimer_construct(time))]
    ELSE [s EXCEPT !.text = "  Time out of bounds"]

\* case 't' of executeCommand, after the two nextWord calls.
ExecT(s, arg1, arg2, ub) ==
    IF ~isNumeric(arg1)
    THEN [s EXCEPT !.text = "  Bad argument for command 't'"]
    ELSE TargetT(Converted(s, arg1), IntArg(s, arg1), arg2, ub)

\* Mutant: the argument is taken as the new position, not as a step.
ExecS_Absolute(s, arg1) ==
    IF ~isNumeric(arg1)
    THEN [s EXCEPT !.text = "  Bad argument for command 's'"]
    ELSE SteppedS_Absolute(Converted(s, arg1), IntArg(s, arg1))

\* case 's' of executeCommand.
ExecS(s, arg1) ==
    IF ~isNumeric(arg1)
    THEN [s EXCEPT !.text = "  Bad argument for command 's'"]
    ELSE SteppedS(Converted(s, arg1), SteppedArg(s, arg1))

\* case 'w' of executeCommand.
ExecW(s, arg1) ==
    IF ~isNumeric(arg1)
    THEN [s EXCEPT !.text = "  Bad argument for command 'w'"]
    ELSE TimedW(Converted(s, arg1), IntArg(s, arg1))

\* What a command may change: the potentiometer, the ramp and the wait.
Tracked(s) ==
    [pot |-> s.pot, target_pos |-> s.app.target_pos, steps |-> s.app.steps,
     linear_cmd_timer |-> s.app.linear_cmd_timer,
     wait_cmd_timer |-> s.app.wait_cmd_timer]

\* executeCommand: text is output_text, "Fail" meaning nothing to print; pre
\* and post are what the call found and what it left.
executeCommand(s0, line, ub) ==
    LET input == toLowerCase(line)
        w0 == nextWord(input, TRUE, s0.cur)
        cmd_type == charAt(w0.word, 0)
        w1 == nextWord(input, FALSE, w0.cur)
        w2 == nextWord(input, FALSE, w1.cur)
        s == [s0 EXCEPT !.executed = Append(@, line), !.text = "Fail",
                        !.pre = Tracked(s0)]
        r == CASE cmd_type = "t" -> ExecT([s EXCEPT !.cur = w2.cur], w1.word, w2.word, ub)
               [] cmd_type = "s" -> ExecS([s EXCEPT !.cur = w1.cur], w1.word)
               [] cmd_type = "w" -> ExecW([s EXCEPT !.cur = w1.cur], w1.word)
               [] cmd_type = "r" -> [s EXCEPT !.cur = w0.cur, !.app.new_value_flag = TRUE]
               [] cmd_type = "q" -> resetApplication(
                                       [s EXCEPT !.cur = w0.cur,
                                                 !.app.cmd_high_priority = FALSE])
               [] OTHER -> [s EXCEPT !.cur = w0.cur, !.text = "  Unknown command type"]
    IN IF r.halted \/ r.text = "Fail" THEN [r EXCEPT !.post = Tracked(r)]
       ELSE [r EXCEPT !.out = Append(@, OutText(r.text)), !.post = Tracked(r)]

\* Mutant: the character tested is the second of the line.
checkPriority_Second(app, cmd) ==
    IF cmd[2] = "q" THEN [app EXCEPT !.cmd_high_priority = TRUE] ELSE app

checkPriority(app, cmd) ==
    IF cmd[1] = "q" THEN [app EXCEPT !.cmd_high_priority = TRUE] ELSE app

\* The bytes that a static of value n adds to a C string that runs into it:
\* its low byte, unless that is the NUL that ends the string.  The string
\* ends at the NUL that follows.
IntBytes(n) == IF n \in 1..Len(LowBytes) THEN <<LowBytes[n]>> ELSE <<>>

\* What lies behind the line buffer in memory, read when the buffer holds no
\* NUL: String(input) runs on until it meets one.  The bytes are those of
\* whatever the build has placed there: nothing, the static ser_i, which
\* holds CMD_CHAR_LEN - 1 = 9 (a tab) when the string is read, nextWord's
\* static cursor, which holds c, or other data.
Garbage(c) ==
    { <<>>, IntBytes(CMD_CHAR_LEN - 1), IntBytes(c), <<"7", " ">> }

\* checkSerialRX, with its statics ser_i and input.  The echo prints the
\* buffer as the string that is stored as the command.
checkSerialRX(s, g) ==
    LET avail == s.rx # <<>>
        serialChar == IF Head(s.rx) = ASCII_CR THEN ASCII_LF ELSE Head(s.rx)
        input1 == IF avail THEN [s.input EXCEPT ![s.ser_i + 1] = serialChar]
                  ELSE s.input
        valid_cmd == avail /\ serialChar = ASCII_LF
        asString == IF \E i \in 1..CMD_CHAR_LEN : input1[i] = NUL
                    THEN CString(input1)
                    ELSE input1 \o g
        app1 == IF avail
                THEN [s.app EXCEPT !.serial_timeout_timer = SWTimer_start(@)]
                ELSE s.app
        app2 == IF valid_cmd
                THEN [checkPriority(app1, input1) EXCEPT !.command = asString]
                ELSE app1
        ser_i1 == IF avail THEN s.ser_i + 1 ELSE s.ser_i
        clear == SWTimer_expired(app2.serial_timeout_timer)
                     \/ ser_i1 >= CMD_CHAR_LEN \/ valid_cmd
    IN [s EXCEPT !.app = app2,
                 !.out = IF valid_cmd /\ s.ECHO_EN THEN Append(@, OutEcho(asString))
                         ELSE @,
                 !.rx = IF avail THEN Tail(s.rx) ELSE s.rx,
                 !.ser_i = IF clear THEN 0 ELSE ser_i1,
                 !.input = IF clear THEN [i \in 1..CMD_CHAR_LEN |-> NUL] ELSE input1,
                 !.valid = valid_cmd,
                 !.delivered = IF valid_cmd THEN asString ELSE <<>>]

\* Mutant: the ramp does not leave Linear when its steps are taken.
LinearStep_Stay(s) ==
    IF SWTimer_expired(s.app.linear_cmd_timer)
    THEN LET direction == IF s.app.target_pos > s.app.pot_pos THEN 1 ELSE -1
         IN [setPosition(s, s.app.pot_pos + direction) EXCEPT
                      !.app.steps = @ - 1,
                      !.app.linear_cmd_timer = SWTimer_start(@)]
    ELSE s

\* Mutant: the ramp steps away from its target.
LinearStep_Reversed(s) ==
    LET s1 == IF SWTimer_expired(s.app.linear_cmd_timer)
              THEN LET direction == IF s.app.target_pos > s.app.pot_pos THEN -1 ELSE 1
                   IN [setPosition(s, s.app.pot_pos + direction) EXCEPT
                                !.app.steps = @ - 1,
                                !.app.linear_cmd_timer = SWTimer_start(@)]
              ELSE s
    IN IF s1.app.steps = 0
       THEN [s1 EXCEPT !.app.cmd_finished_flag = TRUE, !.app.appState = "Idle"]
       ELSE s1

\* One step of a ramp: case Linear of primaryFSM.
LinearStep(s) ==
    LET s1 == IF SWTimer_expired(s.app.linear_cmd_timer)
              THEN LET direction == IF s.app.target_pos > s.app.pot_pos THEN 1 ELSE -1
                   IN [setPosition(s, s.app.pot_pos + direction) EXCEPT
                                !.app.steps = @ - 1,
                                !.app.linear_cmd_timer = SWTimer_start(@)]
              ELSE s
    IN IF s1.app.steps = 0
       THEN [s1 EXCEPT !.app.cmd_finished_flag = TRUE, !.app.appState = "Idle"]
       ELSE s1

\* case Waiting of primaryFSM.
WaitingStep(s) ==
    IF SWTimer_expired(s.app.wait_cmd_timer)
    THEN [s EXCEPT !.app.cmd_finished_flag = TRUE, !.app.appState = "Idle"]
    ELSE s

\* The switch of primaryFSM, entered in `state' after checkSerialRX has left s.
FSMStep(state, s, ub) ==
    CASE state = "Idle" ->
           IF s.valid
           THEN LET e == executeCommand(serialPrintChar(s, S_R_CHAR), s.app.command, ub)
                IN IF e.halted THEN e ELSE [e EXCEPT !.app.appState = "Executing"]
           ELSE [s EXCEPT !.app.appState = state]
      [] state = "Executing" ->
           IF ~SWTimer_expired(s.app.wait_cmd_timer)
           THEN [s EXCEPT !.app.appState = "Waiting"]
           ELSE IF s.app.steps # 0
                THEN [s EXCEPT !.app.appState = "Linear"]
                ELSE [s EXCEPT !.app.cmd_finished_flag = TRUE,
                               !.app.appState = "Idle"]
      [] state = "Linear" -> LinearStep(s)
      [] state = "Waiting" -> WaitingStep(s)

\* Mutant: a line that is ready is dispatched whatever the state.
primaryFSM_Eager(s0, g, ub) ==
    LET s == checkSerialRX(s0, g)
    IN FSMStep(IF s.valid THEN "Idle" ELSE s0.app.appState, s, ub)

primaryFSM(s0, g, ub) == FSMStep(s0.app.appState, checkSerialRX(s0, g), ub)

pollPot(s) == [s EXCEPT !.app.pot_pos = s.pot]

\* Lines 147-164 of Application_loop: the settling timer and the data report.
Telemetry(s, old_pot_pos) ==
    LET s1 == IF s.app.pot_pos # old_pot_pos
              THEN [s EXCEPT !.app.adc_settling_timer = SWTimer_start(@),
                             !.app.new_value_flag = TRUE]
              ELSE s
    IN IF SWTimer_expired(s1.app.adc_settling_timer)
          /\ (SWTimer_expired(s1.app.data_step_timer) \/ s1.app.new_value_flag)
       THEN [serialPrintData(s1) EXCEPT !.app.data_step_timer = SWTimer_start(@),
                                        !.app.new_value_flag = FALSE]
       ELSE s1

\* Mutant: the marker is written and the flag left as it is.
EndMarker_Keep(s) ==
    IF s.app.cmd_finished_flag THEN serialPrintChar(s, S_E_CHAR) ELSE s

\* Lines 169-173: the end-of-command marker.
EndMarker(s) ==
    IF s.app.cmd_finished_flag
    THEN serialPrintChar([s EXCEPT !.app.cmd_finished_flag = FALSE], S_E_CHAR)
    ELSE s

\* Mutant: the high-priority flag is not looked at.
HighPriority_Skip(s, ub) == s

\* Lines 178-183: the high-priority command.
HighPriority(s, ub) ==
    IF ~s.halted /\ s.app.cmd_high_priority
    THEN executeCommand(serialPrintChar(s, S_HP_CHAR), s.app.command, ub)
    ELSE s

\* The passing of d units of time, for every timer of the application.
Tick(a, d) ==
    [a EXCEPT !.wait_cmd_timer = Elapse(@, d),
              !.linear_cmd_timer = Elapse(@, d),
              !.adc_settling_timer = Elapse(@, d),
              !.data_step_timer = Elapse(@, d),
              !.serial_timeout_timer = Elapse(@, d)]

\* Application_loop, d units of time after the last pass.
Application_loop(s, old_pot_pos, d, g, ub) ==
    HighPriority(
        primaryFSM(
            EndMarker(Telemetry(pollPot([s EXCEPT !.app = Tick(@, d), !.dt = d]),
                                old_pot_pos)),
            g, ub),
        ub)

(***************************************************************************)
(* State                                                                   *)
(***************************************************************************)
VARIABLES
    app,          \* the Application struct
    pot,          \* the position the potentiometer driver holds
    old_pot_pos,  \* Application_loop's static
    cur,          \* nextWord's static cursor
    ser_i,        \* checkSerialRX's static index
    input,        \* checkSerialRX's static line buffer
    rx,           \* bytes waiting in the UART receive buffer
    halted,       \* the program has stopped
    out,          \* what the last poll cycle wrote to the serial line
    tx,           \* the serial peer: the bytes of its line still to send
    sent,         \* history: the peer's line that is on its way
    lost,         \* history: the assembler timed out inside the line `sent'
    over,         \* history: the line delivered last was longer than the buffer
    since,        \* history: the time since the position last changed, capped
    tk,           \* the line given to nextWord on its own, and what it returned
    ev,           \* history: what the last poll cycle did
    job           \* history: the command dispatched from Idle and not yet closed

vars == <<app, pot, old_pot_pos, cur, ser_i, input, rx, halted, out,
          tx, sent, lost, over, since, tk, ev, job>>

EmptyInput == [i \in 1..CMD_CHAR_LEN |-> NUL]

NoTracked ==
    [pot |-> 0, target_pos |-> 0, steps |-> 0,
     linear_cmd_timer |-> SWTimer_construct(0),
     wait_cmd_timer |-> SWTimer_construct(0)]

\* job: line is the command, pos0 the position it found, path the states the
\* machine has been in at the end of the poll cycles since, ends the
\* end-of-command markers written since, reset whether a reset line has been
\* completed since, endpos and endsteps the position and the steps left when
\* the machine came back to Idle, seen the position of the data report
\* written last since the dispatch (<<>> if there is none).
NoJob ==
    [line |-> <<>>, pos0 |-> 0, path |-> <<>>, ends |-> 0, reset |-> FALSE,
     endpos |-> 0, endsteps |-> 0, seen |-> <<>>]

\* ev: entry is the state the cycle was entered in, pos the position it
\* polled, valid and line the assembler's result, sent the peer's line it
\* came from, lost whether part of that line timed out, after whether the
\* line delivered before was longer than the buffer, executed the lines
\* handed to executeCommand, pre and post what the last of these calls found
\* and left, closed the command whose end-of-command marker the cycle wrote
\* or which it replaced, cycle whether a poll cycle has run at all, flag0
\* cmd_finished_flag as the cycle found it, divzero whether the cycle divided
\* by zero, drv the positions it passed to the driver, settled the time from
\* the last change of position to the cycle, old the position polled by the
\* cycle before.
NoEvent ==
    [entry |-> "Idle", pos |-> 0, valid |-> FALSE, line |-> <<>>, sent |-> <<>>,
     lost |-> FALSE, after |-> FALSE, executed |-> <<>>, pre |-> NoTracked,
     post |-> NoTracked, closed |-> NoJob, cycle |-> FALSE, flag0 |-> FALSE,
     divzero |-> FALSE, drv |-> <<>>, settled |-> ADC_SETTLE_TIME, old |-> 0]

\* tk: line is the line nextWord is called on, words the words returned since
\* the last call with reset, up to the first "NULL", done whether "NULL" has
\* been returned since then, calm whether every call made after that
\* returned "NULL" and left the cursor where it was.
NoTok == [line |-> <<>>, words |-> <<>>, done |-> FALSE, calm |-> TRUE]

\* The startup message of setup(): "Throttle Mapper Ver. " and VERSION.
startup_message == "Throttle Mapper Ver. 0.72"

\* setup(): the startup message is printed, the application is constructed,
\* the potentiometer is driven to position 0 and the end-of-command marker
\* is printed.
Setup ==
    /\ app = Application_construct
    /\ pot = X9C10X_setPosition(0)
    /\ old_pot_pos = 0
    /\ cur = 0
    /\ ser_i = 0
    /\ input = EmptyInput
    /\ rx = <<>>
    /\ halted = FALSE
    /\ out = <<OutText(startup_message), OutChar(S_E_CHAR)>>
    /\ tx = <<>>
    /\ sent = <<>>
    /\ lost = FALSE
    /\ over = FALSE
    /\ since = ADC_SETTLE_TIME
    /\ ev = NoEvent
    /\ job = NoJob

Init == Setup /\ tk = NoTok

\* The number of lines S_E_CHAR CR among the lines, each ended by LF, of
\* the bytes w, line being the line in hand.
RECURSIVE MarkerLines(_, _)
MarkerLines(w, line) ==
    IF w = <<>> THEN 0
    ELSE IF Head(w) = ASCII_LF
         THEN (IF line = <<S_E_CHAR, ASCII_CR>> THEN 1 ELSE 0)
                  + MarkerLines(Tail(w), <<>>)
         ELSE MarkerLines(Tail(w), Append(line, Head(w)))

\* The number of end-of-command markers in an output: the lines of its
\* bytes that hold the marker character and nothing else.
EndMarkers(o) == MarkerLines(Wire(o), <<>>)

\* The position, as <<pos>>, of the last data report of the output o, or p
\* if o has none.
RECURSIVE LastReport(_, _)
LastReport(o, p) ==
    IF o = <<>> THEN p
    ELSE LastReport(Tail(o), IF Head(o).k = "data" THEN <<Head(o).pos>> ELSE p)

IsResetLine(line) == line # <<>> /\ line[1] = "q"

Last(seq) == seq[Len(seq)]

\* The machine has come back to Idle after the command j.
Returned(j) == Len(j.path) >= 2 /\ Last(j.path) = "Idle"

\* The command j with the end-of-command markers of the output o, which
\* precede in a cycle everything else the cycle does.
Marked(j, o) ==
    IF j.line = <<>> THEN j
    ELSE [j EXCEPT !.ends = IF @ + EndMarkers(o) > MaxCount THEN MaxCount
                             ELSE @ + EndMarkers(o),
                   !.seen = LastReport(o, @)]

Dispatched(entry, r) == entry = "Idle" /\ r.valid

\* The command a poll cycle closes: the one it replaces, or the one whose
\* marker it wrote after the machine had come back to Idle.
ClosedJob(entry, r) ==
    IF job.line # <<>>
       /\ (Dispatched(entry, r) \/ (Returned(job) /\ EndMarkers(r.out) > 0))
    THEN Marked(job, r.out)
    ELSE NoJob

\* The open command after a poll cycle entered in state entry at position
\* pos and ended as r.
NextJob(entry, pos, r) ==
    IF Dispatched(entry, r)
    THEN [line |-> r.executed[1], pos0 |-> pos,
          path |-> IF r.halted THEN <<"Idle">> ELSE <<"Idle", r.app.appState>>,
          ends |-> 0, reset |-> FALSE, endpos |-> 0, endsteps |-> 0,
          seen |-> <<>>]
    ELSE IF ClosedJob(entry, r) # NoJob THEN NoJob
    ELSE IF job.line = <<>> THEN job
    ELSE [Marked(job, r.out) EXCEPT
            !.path = IF Last(job.path) # r.app.appState
                     THEN Append(@, r.app.appState) ELSE @,
            !.reset = @ \/ (r.valid /\ IsResetLine(r.delivered)),
            !.endpos = IF Last(job.path) # "Idle" /\ r.app.appState = "Idle"
                       THEN r.pot ELSE @,
            !.endsteps = IF Last(job.path) # "Idle" /\ r.app.appState = "Idle"
                         THEN r.app.steps ELSE @]

\* The record of everything a poll cycle reads and writes, before the first
\* cycle.
AtSetup ==
    [app |-> Application_construct, pot |-> X9C10X_setPosition(0), cur |-> 0,
     ser_i |-> 0, input |-> EmptyInput, rx |-> <<>>, out |-> <<>>,
     valid |-> FALSE, delivered |-> <<>>, executed |-> <<>>, text |-> "Fail",
     halted |-> FALSE, divzero |-> FALSE, pre |-> NoTracked, post |-> NoTracked,
     dt |-> 0, drv |-> <<>>, build |-> "avr", wide |-> FALSE,
     ECHO_EN |-> FALSE]

\* The record of everything a poll cycle reads and writes, before the cycle.
Before ==
    [AtSetup EXCEPT !.app = app, !.pot = pot, !.cur = cur, !.ser_i = ser_i,
                    !.input = input, !.rx = rx]

\* The assembler drops the bytes it holds because its timer has run out.
TimedOut(r) == ser_i > 0 /\ rx = <<>> /\ r.ser_i = 0

\* The time from the last change of position to the cycle that ended as r,
\* counted no further than the settling interval.
Settled(r) ==
    IF since + r.dt > ADC_SETTLE_TIME THEN ADC_SETTLE_TIME ELSE since + r.dt

\* The state after a poll cycle that ended as r.
Commit(r) ==
    /\ app' = r.app
    /\ pot' = r.pot
    /\ old_pot_pos' = IF r.halted THEN old_pot_pos ELSE r.app.pot_pos
    /\ cur' = r.cur
    /\ ser_i' = r.ser_i
    /\ input' = r.input
    /\ rx' = r.rx
    /\ halted' = r.halted
    /\ out' = r.out
    /\ sent' = IF r.valid THEN <<>> ELSE sent
    /\ lost' = IF r.valid THEN FALSE ELSE (lost \/ TimedOut(r))
    /\ over' = IF r.valid THEN Len(sent) > CMD_CHAR_LEN ELSE over
    /\ since' = IF r.pot # pot THEN 0 ELSE Settled(r)
    /\ ev' = [entry |-> app.appState, pos |-> pot, valid |-> r.valid,
              line |-> r.delivered, sent |-> IF r.valid THEN sent ELSE <<>>,
              lost |-> r.valid /\ lost, after |-> r.valid /\ over,
              executed |-> r.executed, pre |-> r.pre, post |-> r.post,
              closed |-> ClosedJob(app.appState, r),
              cycle |-> TRUE, flag0 |-> app.cmd_finished_flag,
              divzero |-> r.divzero, drv |-> r.drv, settled |-> Settled(r),
              old |-> old_pot_pos]
    /\ job' = NextJob(app.appState, pot, r)
    /\ UNCHANGED <<tx, tk>>

\* The line buffer is full to its last byte and the byte read ends the line.
Overrun ==
    /\ rx # <<>>
    /\ ser_i = CMD_CHAR_LEN - 1
    /\ Head(rx) \in {ASCII_LF, ASCII_CR}

\* The byte read ends a line.
Completes == rx # <<>> /\ Head(rx) \in {ASCII_LF, ASCII_CR}

\* The values of ECHO_EN.  The header that defines it is not among the
\* source files, and the echo is an option of the program: a line is
\* completed with the echo and without it.
EchoSettings == BOOLEAN

\* One pass of loop(): d units of time have passed since the last one.  The
\* cycle's undefined operations, if it has any, end in any of their outcomes,
\* the numbers it reads are those of any build, and so is the echo of a line
\* it completes.
Loop(d) ==
    /\ ~halted
    /\ \E g \in (IF Overrun THEN Garbage(cur) ELSE {<<>>}) :
       \E e \in (IF Completes THEN EchoSettings ELSE {FALSE}) :
       \E r0 \in {Application_loop([Before EXCEPT !.ECHO_EN = e],
                                   old_pot_pos, d, g, "zero")} :
          \/ Commit(r0)
          \/ /\ r0.divzero \/ r0.wide
             /\ \E ub \in (IF r0.divzero THEN UBOutcomes ELSE {"zero"}) :
                \E b \in (IF r0.wide THEN Builds ELSE {Before.build}) :
                   /\ <<ub, b>> # <<"zero", Before.build>>
                   /\ \E r \in {Application_loop([Before EXCEPT !.build = b,
                                                                !.ECHO_EN = e],
                                                  old_pot_pos, d, g, ub)} :
                         Commit(r)

\* The serial peer starts to send a line.
HostPick(line) ==
    /\ tx = <<>>
    /\ rx = <<>>
    /\ sent = <<>>
    /\ tx' = line
    /\ sent' = line
    /\ UNCHANGED <<app, pot, old_pot_pos, cur, ser_i, input, rx, halted, out,
                   lost, over, since, tk, ev, job>>

\* The next byte of the peer's line arrives in the UART receive buffer.
HostByte ==
    /\ tx # <<>>
    /\ Len(rx) < MaxRx
    /\ rx' = Append(rx, Head(tx))
    /\ tx' = Tail(tx)
    /\ UNCHANGED <<app, pot, old_pot_pos, cur, ser_i, input, halted, out, sent,
                   lost, over, since, tk, ev, job>>

\* The program and a peer that sends lines of the set L.
NextOn(L) ==
    \/ \E d \in 0..MaxTick : Loop(d)
    \/ \E line \in L : HostPick(line)
    \/ HostByte

\* A line of the serial protocol: the text and its terminator.
Line(str) == str \o <<ASCII_LF>>

(***************************************************************************)
(* Ramps, waits and resets                                                 *)
(***************************************************************************)
Lines ==
    { Line(<<"t", " ", "3", " ", "4">>),
      Line(<<"w", " ", "2">>),
      Line(<<"s", " ", "-", "2">>),
      Line(<<"q">>) }

Next == NextOn(Lines)

Spec == Init /\ [][Next]_vars

(***************************************************************************)
(* Ramps under fairness: loop() is called for ever and time passes.        *)
(***************************************************************************)
RampLines == { Line(<<"t", " ", "1", " ", "2">>) }

NextRamp == NextOn(RampLines)

\* A poll cycle in which time has passed.
Tock == \E d \in 1..MaxTick : Loop(d)

\* A program that has not stopped has a poll cycle that changes the state:
\* Tock is enabled exactly when the program has not halted.
TockEnabled ==
    halted \/ \E d \in 1..MaxTick :
                 \E r \in {Application_loop(Before, old_pot_pos, d, <<>>, "zero")} :
                    r.app # app \/ r.out # out \/ r.rx # rx

\* loop() is called for ever and the peer sends the line it has begun: weak
\* fairness of Tock, its enabling condition written out as TockEnabled has
\* it, and WF of HostByte.
FairSpec ==
    /\ Init /\ [][NextRamp]_vars
    /\ ([]<>halted \/ []<><<Tock>>_vars)
    /\ WF_vars(HostByte)

(***************************************************************************)
(* The tokenizer on its own: nextWord is called again and again, with and  *)
(* without reset, on the lines that executeCommand tokenizes when the peer *)
(* sends up to MaxLen bytes and the terminator.                            *)
(***************************************************************************)
TokAlphabet == {"t", ASCII_SPACE, NUL}

\* What the peer sends before the terminator: every string of up to MaxLen
\* bytes of the alphabet, and the word NULL in upper case with a word
\* behind it.
TokSent ==
    (UNION {[1..n -> TokAlphabet] : n \in 0..MaxLen})
        \cup {<<"N", "U", "L", "L", " ", "t">>}

\* The line executeCommand tokenizes when the peer sends bytes: they pass
\* through checkSerialRX, one in each poll cycle, and executeCommand puts
\* the command that is delivered in lower case.
RECURSIVE Assembled(_, _)
Assembled(s, bytes) ==
    IF bytes = <<>> THEN toLowerCase(s.delivered)
    ELSE Assembled(checkSerialRX([s EXCEPT !.rx = <<Head(bytes)>>], <<>>),
                   Tail(bytes))

TokLines == { Assembled(AtSetup, Line(str)) : str \in TokSent }

InitTok == Setup /\ tk \in {[NoTok EXCEPT !.line = l] : l \in TokLines}

\* One call nextWord(tk.line, reset).
TokCall(reset) ==
    /\ \E r \in {nextWord(tk.line, reset, cur)} :
          LET null == r.word = NULL_WORD
              fresh == reset \/ ~tk.done
          IN /\ cur' = r.cur
             /\ tk' = [line |-> tk.line,
                       words |-> IF reset
                                 THEN (IF null THEN <<>> ELSE <<r.word>>)
                                 ELSE IF tk.done \/ null THEN tk.words
                                 ELSE Append(tk.words, r.word),
                       done |-> IF reset THEN null ELSE tk.done \/ null,
                       calm |-> IF fresh THEN (reset \/ tk.calm)
                                ELSE tk.calm /\ null /\ r.cur = cur]
    /\ UNCHANGED <<app, pot, old_pot_pos, ser_i, input, rx, halted, out,
                   tx, sent, lost, over, since, ev, job>>

NextTok == \E reset \in BOOLEAN : TokCall(reset)

SpecTok == InitTok /\ [][NextTok]_vars

(***************************************************************************)
(* A ramp, a wait and a reset                                              *)
(***************************************************************************)
CmdLines ==
    { Line(<<"t", " ", "2", " ", "2">>),
      Line(<<"w", " ", "2">>),
      Line(<<"q">>),
      Line(<<S_E_CHAR>>) }

NextCmd == NextOn(CmdLines)

SpecCmd == Init /\ [][NextCmd]_vars

(***************************************************************************)
(* Lines in upper case                                                     *)
(***************************************************************************)
CaseLines ==
    { Line(<<"T", " ", "2", " ", "2">>),
      Line(<<"W", " ", "2">>),
      Line(<<"Q">>) }

NextCase == NextOn(CaseLines)

SpecCase == Init /\ [][NextCase]_vars

(***************************************************************************)
(* Arguments at and beyond the limits of the commands                      *)
(***************************************************************************)
ArgLines ==
    { Line(<<"t", " ", "9", "8">>),
      Line(<<"t", " ", "1", "0", "0">>),
      Line(<<"t", " ", "a", "b">>),
      Line(<<"t", " ", "2", " ", "-", "5">>),
      Line(<<"t", " ", "2", " ", "a", "b">>),
      Line(<<"t", " ", "2", " ", "N", "U", "L", "L">>),
      Line(<<"s", " ", "-", "9", "9">>),
      Line(<<"w", " ", "-", "5">>),
      Line(<<"x">>) }

NextArgs == NextOn(ArgLines)

SpecArgs == Init /\ [][NextArgs]_vars

(***************************************************************************)
(* Lines at and beyond the capacity of the line buffer                     *)
(***************************************************************************)
RxLines ==
    { Line(<<"t", " ", "1", " ", "2", " ", "3", " ", "4", " ", "t", " ", "5">>),
      Line(<<"s", " ", "0", " ", " ", " ", " ", " ", " ">>),
      Line(<<"t", " ", "0">>) }

NextRx == NextOn(RxLines)

SpecRx == Init /\ [][NextRx]_vars

(***************************************************************************)
(* The protocol's reading of a line, for the properties below: its words,  *)
(* and what makes a word an integer.                                       *)
(***************************************************************************)
Word0(line) == nextWord(line, TRUE, 0)
Word1(line) == nextWord(line, FALSE, Word0(line).cur)
Word2(line) == nextWord(line, FALSE, Word1(line).cur)

Letter(line) == tolower(charAt(Word0(line).word, 0))
Arg1(line) == Word1(line).word
Arg2(line) == Word2(line).word

\* The number a word writes in decimal, with its sign.
RECURSIVE WrittenDigits(_, _)
WrittenDigits(str, acc) ==
    IF str = <<>> \/ ~isdigit(Head(str)) THEN acc
    ELSE WrittenDigits(Tail(str), 10 * acc + DigitVal(Head(str)))

Written(w) ==
    IF w # <<>> /\ Head(w) = "-" THEN 0 - WrittenDigits(Tail(w), 0)
    ELSE WrittenDigits(w, 0)

\* An optional minus sign, then one digit or more.
IsInteger(w) ==
    LET ds == IF w # <<>> /\ Head(w) = "-" THEN Tail(w) ELSE w
    IN ds # <<>> /\ \A i \in 1..Len(ds) : isdigit(ds[i])

\* `t <target> <duration>' with target in [0,99) and duration > 0
IsRamp(line) ==
    /\ Letter(line) = "t"
    /\ IsInteger(Arg1(line)) /\ Written(Arg1(line)) \in 0..98
    /\ IsInteger(Arg2(line)) /\ Written(Arg2(line)) > 0

\* `t <target> NULL', the word NULL written or left out, target in [0,99)
IsImmediate(line) ==
    /\ Letter(line) = "t"
    /\ IsInteger(Arg1(line)) /\ Written(Arg1(line)) \in 0..98
    /\ Arg2(line) = NULL_WORD

\* `s <delta>'
IsStep(line) == Letter(line) = "s" /\ IsInteger(Arg1(line))

\* `w <duration>' with duration > 0
IsWait(line) ==
    Letter(line) = "w" /\ IsInteger(Arg1(line)) /\ Written(Arg1(line)) > 0

\* The poll cycle just passed completed a line.
Completed == ev.valid

\* The poll cycle just passed dispatched a line from Idle.
DispatchedNow == ev.valid /\ ev.entry = "Idle"

IsPrefix(p, q) == Len(p) <= Len(q) /\ p = SubSeq(q, 1, Len(p))

Quiet(d) == Application_loop([Before EXCEPT !.rx = <<>>], old_pot_pos, d, <<>>, "zero")

Ignored(d) ==
    \E q \in {Quiet(d)} :
        /\ pot' = q.pot
        /\ app'.target_pos = q.app.target_pos
        /\ app'.steps = q.app.steps
        /\ app'.linear_cmd_timer = q.app.linear_cmd_timer
        /\ app'.wait_cmd_timer = q.app.wait_cmd_timer
        /\ app'.appState = q.app.appState
        /\ app'.cmd_finished_flag = q.app.cmd_finished_flag

ExecutedOnlyWhenDue ==
    ev.executed # <<>> =>
        /\ ev.valid
        /\ \A i \in 1..Len(ev.executed) : ev.executed[i] = ev.line
        /\ ev.entry = "Idle" \/ IsResetLine(ev.line)

RunsToCompletion ==
    (job.line # <<>> /\ ~job.reset /\ Returned(job)) =>
        /\ IsRamp(job.line) => (pot = Written(Arg1(job.line)) /\ app.steps = 0)
        /\ IsWait(job.line) => SWTimer_expired(app.wait_cmd_timer)

StepJob(j) ==
    /\ j.line # <<>> /\ IsStep(j.line)
    /\ j.pos0 + Written(Arg1(j.line)) \in 0..98

C9_WaitArmed ==
    (DispatchedNow /\ IsWait(ev.line)) =>
        /\ ev.post.wait_cmd_timer.running
        /\ ev.post.wait_cmd_timer.duration = Written(Arg1(ev.line))
        /\ \A i \in 1..Len(out) : out[i].k # "text"


(***************************************************************************)
(* Helpers of the claims about executeCommand's arguments                  *)
(***************************************************************************)
\* The poll cycle just passed called executeCommand.
Ran == ev.executed # <<>>

\* The line of that call.
RanLine == Last(ev.executed)

\* The poll cycle just passed wrote a text message.
WroteText == \E i \in 1..Len(out) : out[i].k = "text"

\* Nothing follows the first argument of the line.
NoDuration(line) ==
    \A i \in (Word1(line).cur + 1)..Len(line) : IsSep(line[i])

\* The arguments of the line are invalid for its command at position pos;
\* out of range is beyond the positions the potentiometer has.
InvalidArgs(line, pos) ==
    \/ /\ Letter(line) = "t"
       /\ \/ ~IsInteger(Arg1(line))
          \/ Written(Arg1(line)) \notin 0..POT_MAX_POS
          \/ IsInteger(Arg2(line)) /\ Written(Arg2(line)) <= 0
          \/ ~IsInteger(Arg2(line)) /\ Arg2(line) # NULL_WORD
    \/ /\ Letter(line) = "s"
       /\ \/ ~IsInteger(Arg1(line))
          \/ pos + Written(Arg1(line)) \notin 0..POT_MAX_POS
    \/ /\ Letter(line) = "w"
       /\ \/ ~IsInteger(Arg1(line))
          \/ Written(Arg1(line)) <= 0

\* The line is one that is not applied at position pos: its letter is no
\* command, its first argument is not numeric or is out of range, or the
\* second argument of a t command is neither numeric nor NULL.  (A numeric
\* ramp duration not above 0 is the matter of C3.)
NotApplied(line, pos) ==
    \/ Letter(line) \notin {"t", "s", "w", "r", "q"}
    \/ /\ Letter(line) \in {"t", "s", "w"}
       /\ ~IsInteger(Arg1(line))
    \/ /\ Letter(line) = "t" /\ IsInteger(Arg1(line))
       /\ \/ Written(Arg1(line)) \notin 0..POT_MAX_POS
          \/ ~IsInteger(Arg2(line)) /\ Arg2(line) # NULL_WORD
    \/ /\ Letter(line) = "s" /\ IsInteger(Arg1(line))
       /\ pos + Written(Arg1(line)) \notin 0..POT_MAX_POS
    \/ /\ Letter(line) = "w" /\ IsInteger(Arg1(line))
       /\ Written(Arg1(line)) <= 0

(***************************************************************************)
(* C3.  Rejection monotonicity: a call of executeCommand on a line whose   *)
(* arguments are invalid (not numeric, out of range, a numeric duration    *)
(* not above 0) leaves the position, target_pos, steps, linear_cmd_timer   *)
(* and wait_cmd_timer as it found them.  The code takes a negative ramp    *)
(* duration for a positive one and starts the ramp.                        *)
(***************************************************************************)
C3_RejectionInert ==
    (Ran /\ InvalidArgs(RanLine, ev.pre.pot)) => ev.pre = ev.post

(***************************************************************************)
(* C5.  A line `t <target> NULL' with target in [0,99), the word NULL      *)
(* written or left out, dispatched from Idle sets the potentiometer to     *)
(* target in the cycle that dispatches it, leaves steps at 0 and never     *)
(* brings the machine to Linear.  The code lower-cases the line before it  *)
(* compares the word with "NULL", so the written word moves nothing.       *)
(***************************************************************************)
C5_ImmediateMove ==
    /\ (DispatchedNow /\ IsImmediate(ev.line))
          => (pot = Written(Arg1(ev.line)) /\ app.steps = 0)
    /\ (job.line # <<>> /\ IsImmediate(job.line) /\ ~job.reset)
          => (app.steps = 0 /\ \A i \in 1..Len(job.path) : job.path[i] # "Linear")

(***************************************************************************)
(* C7.  Range boundary: a t command whose target is outside [0,99) is      *)
(* rejected with no state change, and an s move whose stepped position is  *)
(* outside [0,99) is rejected.  So it is for every target and stepped      *)
(* position outside [0,100), beyond the last position of the               *)
(* potentiometer: the cycle writes a message and changes nothing.  The     *)
(* code converts the argument to int before it tests the range, so a       *)
(* number beyond the width of int is tested, and applied, as the number it *)
(* is narrowed to.                                                         *)
(***************************************************************************)
C7_OutsideRejected ==
    /\ (Ran /\ Letter(RanLine) = "t" /\ IsInteger(Arg1(RanLine))
            /\ Written(Arg1(RanLine)) \notin 0..POT_MAX_POS)
          => (ev.pre = ev.post /\ WroteText)
    /\ (Ran /\ IsStep(RanLine)
            /\ ev.pre.pot + Written(Arg1(RanLine)) \notin 0..POT_MAX_POS)
          => (ev.pre = ev.post /\ WroteText)

(***************************************************************************)
(* C10.  Every line dispatched to executeCommand that is not applied (an   *)
(* unknown letter, a required argument that is not numeric, an argument    *)
(* out of range, a second t argument neither numeric nor NULL) makes the   *)
(* cycle write a text message and changes nothing, and the machine comes   *)
(* back to Idle.  The code has no message for a second t argument that is  *)
(* neither numeric nor NULL.                                               *)
(***************************************************************************)
C10_RejectionReported ==
    /\ (DispatchedNow /\ NotApplied(ev.line, ev.pos))
          => (WroteText /\ ev.pre = ev.post)
    /\ (job.line # <<>> /\ NotApplied(job.line, job.pos0) /\ ~job.reset)
          => IsPrefix(job.path, <<"Idle", "Executing", "Idle">>)

(***************************************************************************)
(* C4.  No part of a line longer than the line buffer, terminator          *)
(* included, is ever delivered as a command, and the line within the       *)
(* capacity that comes next is delivered as it was sent.  The code empties *)
(* the buffer when it is full and goes on reading, so the tail of the long *)
(* line is delivered when its terminator comes; and a line of exactly the  *)
(* capacity fills the buffer with no terminating NUL behind it.            *)
(***************************************************************************)
C4_OverlongDropped ==
    Completed =>
        /\ Len(ev.sent) <= CMD_CHAR_LEN
        /\ (ev.after /\ ~ev.lost) => ev.line = ev.sent

(***************************************************************************)
(* C1.  A line `t <target> <duration>' with target in [0,99) and duration  *)
(* above 0, dispatched from Idle at any position, the target included, and *)
(* met by no reset: the machine eventually comes back to Idle, the         *)
(* potentiometer is then at target, steps is 0, and exactly one            *)
(* end-of-command marker is written for the command.  At a position equal  *)
(* to the target the code divides ramping_time by 0.                       *)
(***************************************************************************)
RampJob(j) == j.line # <<>> /\ IsRamp(j.line) /\ ~j.reset

RampDone(j) ==
    /\ RampJob(j) /\ Returned(j)
    /\ j.endpos = Written(Arg1(j.line)) /\ j.endsteps = 0
    /\ j.ends = 1

C1_RampCompletes ==
    /\ RampJob(job) ~> RampDone(ev.closed)
    /\ [](RampJob(ev.closed) => RampDone(ev.closed))


(***************************************************************************)
(* Resets written in more than one way, in every state of a ramp or a wait *)
(***************************************************************************)
QuitLines ==
    { Line(<<"t", " ", "2", " ", "2">>),
      Line(<<"w", " ", "2">>),
      Line(<<"q">>),
      Line(<<"q", "t", " ", "1">>) }

NextQuit == NextOn(QuitLines)

SpecQuit == Init /\ [][NextQuit]_vars

(***************************************************************************)
(* Positions at and beyond the ends of the range, and numbers beyond the   *)
(* width of int                                                            *)
(***************************************************************************)
RangeLines ==
    { Line(<<"t", " ", "9", "8">>),
      Line(<<"t", " ", "9", "9">>),
      Line(<<"t", " ", "1", "0", "0">>),
      Line(<<"s", " ", "9", "9">>),
      Line(<<"s", " ", "-", "9", "9">>),
      Line(<<"t", " ", "6", "5", "5", "3", "8">>),
      Line(<<"s", " ", "6", "5", "5", "3", "6">>) }

NextRange == NextOn(RangeLines)

SpecRange == Init /\ [][NextRange]_vars

(***************************************************************************)
(* Waits within and beyond the width of int, the poll cycles far apart     *)
(***************************************************************************)
\* The time between two poll cycles that are far apart.
LongTick == 65536

WaitLines ==
    { Line(<<"w", " ", "2">>),
      Line(<<"w", " ", "6", "5", "5", "3", "6">>),
      Line(<<"w", " ", "6", "5", "5", "3", "8">>) }

NextWait ==
    \/ \E d \in {0, LongTick} : Loop(d)
    \/ \E line \in WaitLines : HostPick(line)
    \/ HostByte

SpecWait == Init /\ [][NextWait]_vars

(***************************************************************************)
(* Every way to the driver: ramps, steps, targets and resets, with numbers *)
(* beyond the width of int                                                 *)
(***************************************************************************)
DriveLines ==
    { Line(<<"t", " ", "2", " ", "2">>),
      Line(<<"s", " ", "-", "2">>),
      Line(<<"s", " ", "6", "5", "5", "3", "6">>),
      Line(<<"t", " ", "6", "5", "5", "3", "8">>),
      Line(<<"q">>) }

NextDrive == NextOn(DriveLines)

SpecDrive == Init /\ [][NextDrive]_vars

(***************************************************************************)
(* C11.  Commands are case-insensitive: in every state a poll cycle has    *)
(* the same effect on the application state, the potentiometer and the     *)
(* output whether the letters of the line it reads are in upper or in      *)
(* lower case; an upper-case Q completed in Linear or Waiting preempts as  *)
(* q does.  The code tests the first character of the raw line against     *)
(* 'q', so Q is no high-priority command.                                  *)
(***************************************************************************)
\* The cycle record s with the letters of the line buffer and of the bytes
\* still to read in lower case.
LowerCased(s) ==
    [s EXCEPT !.input = [i \in 1..CMD_CHAR_LEN |-> tolower(s.input[i])],
              !.rx = toLowerCase(s.rx)]

\* Two poll cycles leave the same application state (the stored line apart
\* from the case of its letters), the same position and the same output.
SameEffect(a, b) ==
    /\ a.pot = b.pot
    /\ a.out = b.out
    /\ a.halted = b.halted
    /\ [a.app EXCEPT !.command = toLowerCase(@)]
          = [b.app EXCEPT !.command = toLowerCase(@)]

C11_CaseInsensitive ==
    \A d \in 0..MaxTick :
        SameEffect(Application_loop(Before, old_pot_pos, d, <<>>, "zero"),
                   Application_loop(LowerCased(Before), old_pot_pos, d, <<>>, "zero"))


RECURSIVE SplitWords(_, _)
SplitWords(rest, w) ==
    IF rest = <<>> THEN (IF w = <<>> THEN <<>> ELSE <<w>>)
    ELSE IF IsSep(Head(rest))
         THEN (IF w = <<>> THEN <<>> ELSE <<w>>) \o SplitWords(Tail(rest), <<>>)
         ELSE SplitWords(Tail(rest), Append(w, Head(rest)))

C13_TokenizerIdempotent ==
    /\ tk.calm
    /\ tk.done => tk.words = SplitWords(tk.line, <<>>)


(***************************************************************************)
(* C14.  Telemetry settling: after a change of the potentiometer position, *)
(* whatever made it, no data report is written until the settling interval *)
(* has passed since the change, and a cycle that observes a change arms    *)
(* the settling timer again, so it writes none.  The code reconstructs the *)
(* application on reset, the settling timer and the polled position with   *)
(* it, so the drive to 0 is never observed and the next cycle reports.     *)
(***************************************************************************)
\* The poll cycle just passed wrote a data report.
WroteData == \E i \in 1..Len(out) : out[i].k = "data"

C14_TelemetrySettling ==
    ev.cycle =>
        /\ WroteData => ev.settled >= ADC_SETTLE_TIME
        /\ ev.pos # ev.old => ~WroteData


(***************************************************************************)
(* C15.  The end marker follows the final measurement: for a command that  *)
(* changes the potentiometer position (a ramp, an immediate t, an s), the  *)
(* end-of-command marker is written only after a data report that carries  *)
(* the position the command ended at.  In the code the cycle that writes   *)
(* the marker of a ramp is the one that observes the last step, and the    *)
(* settling timer it arms holds the report back.                           *)
(***************************************************************************)
\* The command j has come back to Idle with the position changed, and no
\* reset has met it.
Moved(j) ==
    /\ j.line # <<>> /\ Letter(j.line) \in {"t", "s"}
    /\ Returned(j) /\ ~j.reset
    /\ j.endpos # j.pos0

C15_MarkerAfterReport ==
    (Moved(ev.closed) /\ ev.closed.ends > 0)
        => ev.closed.seen = <<ev.closed.endpos>>


(***************************************************************************)
(* C16.  End-of-command flag discipline: cmd_finished_flag is set once for *)
(* each command dispatched from Idle that completes; the next poll cycle   *)
(* clears it and writes exactly one end-of-command marker; it is never set *)
(* at the end of two cycles in a row; and no end-of-command marker is      *)
(* written without a command completed before it.  As the code has it the  *)
(* last holds of the poll cycles only: setup() writes one marker at        *)
(* start-up, before any command.  A marker is a line of the output that    *)
(* holds the marker character alone, ended by CR LF; the echo of a         *)
(* line that holds that character ends with LF alone and is none.          *)
(***************************************************************************)
\* The flag is set only by a command in hand that has come back to Idle and
\* has had no marker yet; the cycle after clears it; a command closed by
\* its marker has had exactly one.
FlagDiscipline ==
    /\ app.cmd_finished_flag
          => (job.line # <<>> /\ Returned(job) /\ job.ends = 0)
    /\ ev.flag0 => ~app.cmd_finished_flag
    /\ (ev.closed.line # <<>> /\ Returned(ev.closed) /\ ~ev.closed.reset
           /\ EndMarkers(out) > 0)
          => ev.closed.ends = 1

\* The markers of the poll cycle just passed: one if it found the flag set,
\* none if not.
MarkerOnFlag == EndMarkers(out) = (IF ev.flag0 THEN 1 ELSE 0)

\* The claim as stated: the output holds a marker only for a flag found set.
C16_FlagOnly == FlagDiscipline /\ MarkerOnFlag

\* The claim as the code has it: so it is once a poll cycle has run, and
\* before that the output holds the one marker of setup().
C16_FlagAndSetup ==
    /\ FlagDiscipline
    /\ ev.cycle => MarkerOnFlag
    /\ ~ev.cycle => /\ out = <<OutText(startup_message), OutChar(S_E_CHAR)>>
                    /\ ~app.cmd_finished_flag

\* The cycle after a ramp has come back to Idle: it found the flag set,
\* cleared it and wrote the one marker of the ramp; the same cycle has
\* completed a line that holds the marker character, and echoed it.
C16_Witness ==
    /\ ev.cycle /\ ev.flag0 /\ ~app.cmd_finished_flag
    /\ EndMarkers(out) = 1
    /\ IsRamp(ev.closed.line) /\ Returned(ev.closed) /\ ev.closed.ends = 1
    /\ \E i \in 1..Len(out) : out[i] = OutEcho(Line(<<S_E_CHAR>>))


(***************************************************************************)
(* C17.  A ramp `t <target> <duration>' with duration > 0 whose target is  *)
(* the position the potentiometer is at has no steps to take and completes *)
(* at once: the step interval duration / steps is not evaluated, no ramp   *)
(* timer is armed, and the machine goes from Executing to Idle without     *)
(* entering Linear.  The code evaluates ramping_time / steps before it     *)
(* looks at steps, and starts the ramp timer with the quotient.            *)
(***************************************************************************)
\* The command j is a ramp to the position it found.
ZeroStepRamp(j) ==
    /\ j.line # <<>> /\ IsRamp(j.line)
    /\ Written(Arg1(j.line)) = j.pos0

\* The poll cycle just passed has dispatched the open command.
DispatchCycle == ev.valid /\ ev.entry = "Idle" /\ ev.executed = <<job.line>>

C17_ZeroStepImmediate ==
    /\ (DispatchCycle /\ ZeroStepRamp(job))
          => /\ ~ev.divzero
             /\ ~halted
             /\ ~app.linear_cmd_timer.running
    /\ (ZeroStepRamp(job) /\ ~job.reset)
          => IsPrefix(job.path, <<"Idle", "Executing", "Idle">>)


AppStates == {"Idle", "Executing", "Waiting", "Linear"}

\* The poll cycle just passed has taken the machine into Waiting.
EntersWaiting == ev.cycle /\ ev.entry # "Waiting" /\ app.appState = "Waiting"

====
